---- MODULE Spec2Model ----
(***************************************************************************)
(* Model of systers_portal/blog/views.py: the class-based views of the     *)
(* community blog (news and resource posts).  The database tables are the  *)
(* state; every request handled by a view is one action, carried out from  *)
(* dispatch() to the response.                                             *)
(***************************************************************************)
EXTENDS Integers, Sequences, FiniteSets, TLC

VARIABLES
    communities,   \* table Community: rows [pk, slug]
    grants,        \* object permissions: <<user, permission, community pk>>
    news,          \* table News, rows in insertion order
    resources,     \* table Resource, rows in insertion order
    resp           \* the request handled last and the response it got

vars == <<communities, grants, news, resources, resp>>

----------------------------------------------------------------------------
(* Bounds of the model *)

\* rows the News table may hold in Spec
MaxNews == 1
\* longest table SpecList starts from
MaxListed == 7

----------------------------------------------------------------------------
(* Rows, requests and responses *)

CommunityRows == << [pk |-> 1, slug |-> "a"], [pk |-> 2, slug |-> "b"] >>

NoCommunity == [pk |-> 0, slug |-> ""]

\* a News or Resource row: the slug, the community (its pk) and the author;
\* the content fields, which no view reads, are left out
NoPost == [slug |-> "", community |-> 0, author |-> ""]

\* request.user: AnonymousUser, a superuser, an ordinary member
Users == {"anon", "root", "ann"}

is_authenticated(user) == user # "anon"

is_superuser(user) == user = "root"

Request(view, method, user, slug, post_slug, page, data) ==
    [view |-> view, method |-> method, user |-> user, slug |-> slug,
     post_slug |-> post_slug, page |-> page, data |-> data]

\* status: 200 a rendered template, 302 a redirect to url, 403 PermissionDenied,
\* 404 Http404.  community, post, post_type and object_list are the template
\* context of a rendered page; post is self.object of a post view.
HttpResponse(request, status, steps, url, community, post, post_type, object_list) ==
    [request |-> request, status |-> status, steps |-> steps, url |-> url,
     community |-> community, post |-> post, post_type |-> post_type,
     object_list |-> object_list]

NoResponse ==
    HttpResponse(Request("", "", "anon", "", "", 0, NoPost), "", <<>>, <<>>,
                 NoCommunity, NoPost, "", <<>>)

\* a response that renders no template: an exception turned into a status
Raised(request, status, steps) ==
    HttpResponse(request, status, steps, <<>>, NoCommunity, NoPost, "", <<>>)

----------------------------------------------------------------------------
(* Framework calls the views make *)

\* get_object_or_404(Model, slug=slug) / SingleObjectMixin.get_object():
\* the row with that slug, or Http404
get_object_or_404(rows, slug) ==
    LET found == {i \in DOMAIN rows : rows[i].slug = slug}
    IN  IF found = {}
        THEN [raised |-> "Http404", index |-> 0]
        ELSE [raised |-> "", index |-> CHOOSE i \in found : TRUE]

\* request.user.has_perm(perm, community), the permission string evaluated
\* against the user: true unconditionally for superusers ("The permission
\* holds true for superusers"), for anyone else what was granted on that
\* community
has_perm(user, perm, community) ==
    is_superuser(user) \/ <<user, perm, community.pk>> \in grants

\* faulty variant: the permissions assigned on the community are looked up
\* instead of asking request.user.has_perm
check_permissions_assigned_only(perm, user, slug) ==
    LET c == get_object_or_404(communities, slug)
    IN  IF c.raised # ""
        THEN [raised |-> c.raised, community |-> NoCommunity, result |-> FALSE]
        ELSE [raised |-> "", community |-> communities[c.index],
              result |-> <<user, perm, communities[c.index].pk>> \in grants]

\* check_permissions of the add, edit and delete views: the community of the
\* URL slug (self.community) or Http404, then the permission on it
check_permissions(perm, user, slug) ==
    LET c == get_object_or_404(communities, slug)
    IN  IF c.raised # ""
        THEN [raised |-> c.raised, community |-> NoCommunity, result |-> FALSE]
        ELSE [raised |-> "", community |-> communities[c.index],
              result |-> has_perm(user, perm, communities[c.index])]

\* faulty variant: the mixins in the other order
AccessMixin_dispatch_permission_first(user, check) ==
    IF check.raised # ""
    THEN [status |-> "404", steps |-> <<"get_community">>]
    ELSE IF ~check.result
    THEN [status |-> "403", steps |-> <<"get_community", "has_perm">>]
    ELSE IF ~is_authenticated(user)
    THEN [status |-> "403",
          steps |-> <<"get_community", "has_perm", "is_authenticated">>]
    ELSE [status |-> "",
          steps |-> <<"get_community", "has_perm", "is_authenticated">>]

\* LoginRequiredMixin.dispatch, then PermissionRequiredMixin.dispatch, both
\* with raise_exception = True; check is what check_permissions gives, and
\* is looked at only when the user is authenticated
AccessMixin_dispatch(user, check) ==
    IF ~is_authenticated(user)
    THEN [status |-> "403", steps |-> <<"is_authenticated">>]
    ELSE IF check.raised # ""
    THEN [status |-> "404", steps |-> <<"is_authenticated", "get_community">>]
    ELSE IF ~check.result
    THEN [status |-> "403",
          steps |-> <<"is_authenticated", "get_community", "has_perm">>]
    ELSE [status |-> "",
          steps |-> <<"is_authenticated", "get_community", "has_perm">>]

\* reverse(name, kwargs): the URL, kept as its name and arguments
reverse(name, args) == <<name>> \o args

\* ModelForm.is_valid(): the slug of a post is unique in its table
is_valid(rows, data, instance) ==
    \A i \in DOMAIN rows : i # instance => rows[i].slug # data.slug

\* AddNewsForm / AddResourceForm .save(): the submitted fields, with author
\* and community taken from the form kwargs
AddForm_save(data, kwargs) ==
    [slug |-> data.slug, community |-> kwargs.community.pk,
     author |-> kwargs.author]

\* EditNewsForm.save(): the submitted fields onto the instance
EditNewsForm_save(instance, data) ==
    [instance EXCEPT !.slug = data.slug]

----------------------------------------------------------------------------
(* Pagination of the list views *)

paginate_by == 5

\* Paginator.num_pages with orphans = 0 and allow_empty_first_page = True
num_pages(count) ==
    IF count = 0 THEN 1 ELSE (count + paginate_by - 1) \div paginate_by

\* MultipleObjectMixin.paginate_queryset: Paginator.page(number), where an
\* invalid page number is Http404
paginate_queryset(queryset, number) ==
    IF number < 1 \/ number > num_pages(Len(queryset))
    THEN [raised |-> "Http404", object_list |-> <<>>]
    ELSE LET bottom == (number - 1) * paginate_by
             top == IF bottom + paginate_by >= Len(queryset)
                    THEN Len(queryset) ELSE bottom + paginate_by
         IN  [raised |-> "", object_list |-> SubSeq(queryset, bottom + 1, top)]

----------------------------------------------------------------------------
(* CommunityNewsListView *)

\* faulty variant: News.objects.all()
CommunityNewsListView_get_queryset_all(community) == news

CommunityNewsListView_get_queryset(community) ==
    SelectSeq(news, LAMBDA post : post.community = community.pk)

ListView_get(request, c, queryset, post_type) ==
    IF c.raised # ""
    THEN Raised(request, "404", <<"get_community">>)
    ELSE LET page == paginate_queryset(queryset, request.page)
         IN  IF page.raised # ""
             THEN Raised(request, "404", <<"get_community", "get_queryset">>)
             ELSE HttpResponse(request, "200", <<"get_community", "get_queryset">>,
                               <<>>, communities[c.index], NoPost, post_type,
                               page.object_list)

CommunityNewsListView_get(request) ==
    LET c == get_object_or_404(communities, request.slug)
    IN  ListView_get(request, c,
                     IF c.raised # "" THEN <<>>
                     ELSE CommunityNewsListView_get_queryset(communities[c.index]),
                     "news")

----------------------------------------------------------------------------
(* CommunityNewsView *)

\* faulty variant: a missing post is rendered as an empty one
DetailView_get_any_post(request, c, rows, post_type) ==
    IF c.raised # ""
    THEN Raised(request, "404", <<"get_community">>)
    ELSE LET post == get_object_or_404(rows, request.post_slug)
         IN  HttpResponse(request, "200", <<"get_community", "get_post">>, <<>>,
                          communities[c.index],
                          IF post.raised # "" THEN NoPost ELSE rows[post.index],
                          post_type, <<>>)

\* DetailView.get with model = Community, then get_context_data
DetailView_get(request, c, rows, post_type) ==
    IF c.raised # ""
    THEN Raised(request, "404", <<"get_community">>)
    ELSE LET post == get_object_or_404(rows, request.post_slug)
         IN  IF post.raised # ""
             THEN Raised(request, "404", <<"get_community", "get_post">>)
             ELSE HttpResponse(request, "200", <<"get_community", "get_post">>,
                               <<>>, communities[c.index], rows[post.index],
                               post_type, <<>>)

CommunityNewsView_get(request) ==
    DetailView_get(request, get_object_or_404(communities, request.slug),
                   news, "news")

----------------------------------------------------------------------------
(* AddCommunityNewsView *)

AddCommunityNewsView_get_success_url(community, object) ==
    reverse("view_community_news", <<community.slug, object.slug>>)

\* faulty variant: the first community instead of self.community
AddCommunityNewsView_get_form_kwargs_first_community(user, community) ==
    [author |-> user, community |-> communities[1]]

AddCommunityNewsView_get_form_kwargs(user, community) ==
    [author |-> user, community |-> community]

\* faulty variant: the permission of the edit view
AddCommunityNewsView_check_permissions_change(user, slug) ==
    check_permissions("change_community_news", user, slug)

AddCommunityNewsView_check_permissions(user, slug) ==
    check_permissions("add_community_news", user, slug)

\* CreateView behind the two access mixins: dispatch, then get() or post();
\* object is what form.save() returns and url is get_success_url()
CreateView_dispatch(request, check, rows, object, url, post_type) ==
    LET access == AccessMixin_dispatch(request.user, check)
    IN  IF access.status # ""
        THEN [response |-> Raised(request, access.status, access.steps),
              rows |-> rows]
        ELSE IF request.method = "GET"
        THEN [response |-> HttpResponse(request, "200", access.steps, <<>>,
                                        check.community, NoPost, post_type, <<>>),
              rows |-> rows]
        ELSE IF ~is_valid(rows, request.data, 0)
        THEN [response |-> HttpResponse(request, "200",
                                        Append(access.steps, "form"), <<>>,
                                        check.community, NoPost, post_type, <<>>),
              rows |-> rows]
        ELSE [response |-> HttpResponse(request, "302",
                                        Append(access.steps, "form"), url,
                                        check.community, object, "", <<>>),
              rows |-> Append(rows, object)]

AddCommunityNewsView_dispatch(request) ==
    LET check == AddCommunityNewsView_check_permissions(request.user, request.slug)
        object == AddForm_save(request.data,
                      AddCommunityNewsView_get_form_kwargs(request.user,
                                                           check.community))
    IN  CreateView_dispatch(request, check, news, object,
            AddCommunityNewsView_get_success_url(check.community, object),
            "news")

----------------------------------------------------------------------------
(* EditCommunityNewsView *)

\* faulty variant: the slug of the community the post belongs to
EditCommunityNewsView_get_success_url_of_post(community, object) ==
    reverse("view_community_news",
            <<communities[object.community].slug, object.slug>>)

EditCommunityNewsView_get_success_url(community, object) ==
    reverse("view_community_news", <<community.slug, object.slug>>)

EditCommunityNewsView_check_permissions(user, slug) ==
    check_permissions("change_community_news", user, slug)

\* UpdateView behind the two access mixins; get_object() looks the News row
\* up by news_slug (slug_url_kwarg) in News.objects.all()
EditCommunityNewsView_dispatch(request) ==
    LET check == EditCommunityNewsView_check_permissions(request.user, request.slug)
        access == AccessMixin_dispatch(request.user, check)
        o == get_object_or_404(news, request.post_slug)
        steps == Append(access.steps, "get_object")
    IN  IF access.status # ""
        THEN [response |-> Raised(request, access.status, access.steps),
              rows |-> news]
        ELSE IF o.raised # ""
        THEN [response |-> Raised(request, "404", steps), rows |-> news]
        ELSE IF request.method = "GET"
        THEN [response |-> HttpResponse(request, "200", steps, <<>>,
                                        check.community, news[o.index], "", <<>>),
              rows |-> news]
        ELSE IF ~is_valid(news, request.data, o.index)
        THEN [response |-> HttpResponse(request, "200", Append(steps, "form"),
                                        <<>>, check.community, news[o.index], "",
                                        <<>>),
              rows |-> news]
        ELSE LET object == EditNewsForm_save(news[o.index], request.data)
             IN  [response |->
                      HttpResponse(request, "302", Append(steps, "form"),
                          EditCommunityNewsView_get_success_url(check.community,
                                                                object),
                          check.community, object, "", <<>>),
                  rows |-> [news EXCEPT ![o.index] = object]]

----------------------------------------------------------------------------
(* DeleteCommunityNewsView *)

DeleteCommunityNewsView_get_success_url(community) ==
    reverse("view_community_news_list", <<community.slug>>)

DeleteCommunityNewsView_check_permissions(user, slug) ==
    check_permissions("delete_community_news", user, slug)

\* QuerySet row removal: Model.delete()
delete(rows, index) ==
    SubSeq(rows, 1, index - 1) \o SubSeq(rows, index + 1, Len(rows))

\* faulty variant: the row is deleted before the access checks
DeleteCommunityNewsView_dispatch_delete_first(request) ==
    LET check == DeleteCommunityNewsView_check_permissions(request.user,
                                                           request.slug)
        access == AccessMixin_dispatch(request.user, check)
        o == get_object_or_404(news, request.post_slug)
        steps == Append(access.steps, "get_object")
        rows == IF o.raised = "" /\ request.method = "POST"
                THEN delete(news, o.index) ELSE news
    IN  IF access.status # ""
        THEN [response |-> Raised(request, access.status, access.steps),
              rows |-> rows]
        ELSE IF o.raised # ""
        THEN [response |-> Raised(request, "404", steps), rows |-> rows]
        ELSE IF request.method = "GET"
        THEN [response |-> HttpResponse(request, "200", steps, <<>>,
                                        check.community, news[o.index], "news",
                                        <<>>),
              rows |-> rows]
        ELSE [response |->
                  HttpResponse(request, "302", Append(steps, "delete"),
                      DeleteCommunityNewsView_get_success_url(check.community),
                      check.community, news[o.index], "", <<>>),
              rows |-> rows]

\* DeleteView behind the two access mixins; get_object() as in the edit view
DeleteCommunityNewsView_dispatch(request) ==
    LET check == DeleteCommunityNewsView_check_permissions(request.user,
                                                           request.slug)
        access == AccessMixin_dispatch(request.user, check)
        o == get_object_or_404(news, request.post_slug)
        steps == Append(access.steps, "get_object")
    IN  IF access.status # ""
        THEN [response |-> Raised(request, access.status, access.steps),
              rows |-> news]
        ELSE IF o.raised # ""
        THEN [response |-> Raised(request, "404", steps), rows |-> news]
        ELSE IF request.method = "GET"
        THEN [response |-> HttpResponse(request, "200", steps, <<>>,
                                        check.community, news[o.index], "news",
                                        <<>>),
              rows |-> news]
        ELSE [response |->
                  HttpResponse(request, "302", Append(steps, "delete"),
                      DeleteCommunityNewsView_get_success_url(check.community),
                      check.community, news[o.index], "", <<>>),
              rows |-> delete(news, o.index)]

----------------------------------------------------------------------------
(* CommunityResourceListView, CommunityResourceView, AddCommunityResourceView *)

CommunityResourceListView_get_queryset(community) ==
    SelectSeq(resources, LAMBDA post : post.community = community.pk)

CommunityResourceListView_get(request) ==
    LET c == get_object_or_404(communities, request.slug)
    IN  ListView_get(request, c,
                     IF c.raised # "" THEN <<>>
                     ELSE CommunityResourceListView_get_queryset(
                              communities[c.index]),
                     "resource")

CommunityResourceView_get(request) ==
    DetailView_get(request, get_object_or_404(communities, request.slug),
                   resources, "resource")

AddCommunityResourceView_get_success_url(community, object) ==
    reverse("view_community_resource", <<community.slug, object.slug>>)

AddCommunityResourceView_get_form_kwargs(user, community) ==
    [author |-> user, community |-> community]

AddCommunityResourceView_check_permissions(user, slug) ==
    check_permissions("add_community_resource", user, slug)

AddCommunityResourceView_dispatch(request) ==
    LET check == AddCommunityResourceView_check_permissions(request.user,
                                                            request.slug)
        object == AddForm_save(request.data,
                      AddCommunityResourceView_get_form_kwargs(request.user,
                                                               check.community))
    IN  CreateView_dispatch(request, check, resources, object,
            AddCommunityResourceView_get_success_url(check.community, object),
            "resource")

----------------------------------------------------------------------------
(* The requests: one action per view *)

CommunityNewsListView(user, slug, page) ==
    /\ resp' = CommunityNewsListView_get(
                   Request("CommunityNewsListView", "GET", user, slug, "", page,
                           NoPost))
    /\ UNCHANGED <<communities, grants, news, resources>>

CommunityNewsView(user, slug, news_slug) ==
    /\ resp' = CommunityNewsView_get(
                   Request("CommunityNewsView", "GET", user, slug, news_slug, 0,
                           NoPost))
    /\ UNCHANGED <<communities, grants, news, resources>>

AddCommunityNewsView(user, slug, method, data) ==
    LET result == AddCommunityNewsView_dispatch(
                      Request("AddCommunityNewsView", method, user, slug, "", 0,
                              data))
    IN  /\ resp' = result.response
        /\ news' = result.rows
        /\ UNCHANGED <<communities, grants, resources>>

EditCommunityNewsView(user, slug, news_slug, method, data) ==
    LET result == EditCommunityNewsView_dispatch(
                      Request("EditCommunityNewsView", method, user, slug,
                              news_slug, 0, data))
    IN  /\ resp' = result.response
        /\ news' = result.rows
        /\ UNCHANGED <<communities, grants, resources>>

DeleteCommunityNewsView(user, slug, news_slug, method) ==
    LET result == DeleteCommunityNewsView_dispatch(
                      Request("DeleteCommunityNewsView", method, user, slug,
                              news_slug, 0, NoPost))
    IN  /\ resp' = result.response
        /\ news' = result.rows
        /\ UNCHANGED <<communities, grants, resources>>

CommunityResourceListView(user, slug, page) ==
    /\ resp' = CommunityResourceListView_get(
                   Request("CommunityResourceListView", "GET", user, slug, "",
                           page, NoPost))
    /\ UNCHANGED <<communities, grants, news, resources>>

CommunityResourceView(user, slug, resource_slug) ==
    /\ resp' = CommunityResourceView_get(
                   Request("CommunityResourceView", "GET", user, slug,
                           resource_slug, 0, NoPost))
    /\ UNCHANGED <<communities, grants, news, resources>>

AddCommunityResourceView(user, slug, method, data) ==
    LET result == AddCommunityResourceView_dispatch(
                      Request("AddCommunityResourceView", method, user, slug, "",
                              0, data))
    IN  /\ resp' = result.response
        /\ resources' = result.rows
        /\ UNCHANGED <<communities, grants, news>>

---------------------------------------------------------------------------------------------------------------------------------------------------
(* Inputs *)

\* URL community slugs: the two communities and a slug of none
Slugs == {"a", "b", "x"}

NewsSlugs == {"n1", "n2"}

\* slugs are unique in a table, so the Resource table holds one row at most
ResourceSlugs == {"r1"}

\* the list and detail views are open to everyone
Visitors == {"anon", "ann"}

\* community and author fields a client may add to the submitted data
Forged == {[community |-> 1, author |-> "root"],
           [community |-> 2, author |-> "ann"]}

PostData(slugs) ==
    {[slug |-> s, community |-> f.community, author |-> f.author] :
        s \in slugs, f \in Forged}

\* the object permissions assigned before the requests: the member holds each
\* permission on one community only; the superuser was granted one permission
\* on one community and no other
Grants ==
    {<<"ann", "add_community_news", 1>>, <<"ann", "change_community_news", 2>>,
     <<"ann", "delete_community_news", 1>>,
     <<"ann", "add_community_resource", 2>>,
     <<"root", "add_community_news", 2>>}

----------------------------------------------------------------------------
(* Spec: every view, from an empty blog *)

Init ==
    /\ communities = CommunityRows
    /\ grants = Grants
    /\ news = <<>>
    /\ resources = <<>>
    /\ resp = NoResponse

Next ==
    \/ \E user \in Visitors, slug \in Slugs :
           CommunityNewsListView(user, slug, 1)
    \/ \E user \in Visitors, slug \in Slugs, news_slug \in NewsSlugs :
           CommunityNewsView(user, slug, news_slug)
    \/ \E user \in Users, slug \in Slugs :
           \/ AddCommunityNewsView(user, slug, "GET", NoPost)
           \/ \E data \in PostData(NewsSlugs) :
                  /\ AddCommunityNewsView(user, slug, "POST", data)
                  /\ Len(news') <= MaxNews
    \/ \E user \in Users, slug \in Slugs, news_slug \in NewsSlugs :
           \/ EditCommunityNewsView(user, slug, news_slug, "GET", NoPost)
           \/ \E new_slug \in NewsSlugs :
                  EditCommunityNewsView(user, slug, news_slug, "POST",
                                        [NoPost EXCEPT !.slug = new_slug])
    \/ \E user \in Users, slug \in Slugs, news_slug \in NewsSlugs,
          method \in {"GET", "POST"} :
           DeleteCommunityNewsView(user, slug, news_slug, method)
    \/ \E user \in Visitors, slug \in Slugs :
           CommunityResourceListView(user, slug, 1)
    \/ \E user \in Visitors, slug \in Slugs, resource_slug \in ResourceSlugs :
           CommunityResourceView(user, slug, resource_slug)
    \/ \E user \in Users, slug \in Slugs :
           \/ AddCommunityResourceView(user, slug, "GET", NoPost)
           \/ \E data \in PostData(ResourceSlugs) :
                  AddCommunityResourceView(user, slug, "POST", data)

Spec == Init /\ [][Next]_vars

----------------------------------------------------------------------------
(* SpecList: the list views over blogs of up to MaxListed posts a table *)

ListSlugs == <<"p1", "p2", "p3", "p4", "p5", "p6", "p7", "p8">>

\* the community of each row, in insertion order
Layouts == UNION {[1..n -> {1, 2}] : n \in 0..MaxListed}

Listed(layout) ==
    [i \in 1..Len(layout) |->
        [slug |-> ListSlugs[i], community |-> layout[i], author |-> "root"]]

\* the other table is laid out the other way round
Mirror(layout) ==
    [i \in 1..Len(layout) |-> 3 - layout[Len(layout) + 1 - i]]

\* page numbers a URL may carry: every page of the longest list and one more
PageNumbers == 1..(num_pages(MaxListed) + 1)

InitList ==
    /\ communities = CommunityRows
    /\ grants = Grants
    /\ \E layout \in Layouts :
           /\ news = Listed(layout)
           /\ resources = Listed(Mirror(layout))
    /\ resp = NoResponse

NextList ==
    \/ \E slug \in Slugs, page \in PageNumbers :
           CommunityNewsListView("anon", slug, page)
    \/ \E slug \in Slugs, page \in PageNumbers :
           CommunityResourceListView("anon", slug, page)

SpecList == InitList /\ [][NextList]_vars

----------------------------------------------------------------------------
(* C4 *)

NewsPage(slug, page) ==
    CommunityNewsListView_get(
        Request("CommunityNewsListView", "GET", "anon", slug, "", page, NoPost))

ResourcePage(slug, page) ==
    CommunityResourceListView_get(
        Request("CommunityResourceListView", "GET", "anon", slug, "", page,
                NoPost))

\* the rows of the pages 1..last of a list view, in page order
RECURSIVE Shown(_, _, _)
Shown(Page(_, _), slug, last) ==
    IF last = 0 THEN <<>>
    ELSE Shown(Page, slug, last - 1)
            \o (IF Page(slug, last).status = "200"
                THEN Page(slug, last).object_list ELSE <<>>)

PagesHoldExactly(Page(_, _), rows, community) ==
    LET last == Len(rows) + 1
        shown == Shown(Page, community.slug, last)
    IN  /\ \A i \in DOMAIN rows :
               rows[i].community = community.pk
                   <=> \E j \in DOMAIN shown : shown[j] = rows[i]
        /\ \A j \in DOMAIN shown :
               \E i \in DOMAIN rows :
                   rows[i] = shown[j] /\ rows[i].community = community.pk
        /\ \A j, k \in DOMAIN shown : shown[j] = shown[k] => j = k
        /\ \A page \in 1..last :
               Len(Page(community.slug, page).object_list) <= 5

\* C4: in every state of the database and for every community, the pages of
\* CommunityNewsListView (CommunityResourceListView) for the community's slug
\* hold together exactly the News (Resource) rows of that community, each
\* once, none of another community, and no page holds more than 5 rows.
C4_PagesHoldExactlyTheCommunityPosts ==
    \A c \in DOMAIN communities :
        /\ PagesHoldExactly(NewsPage, news, communities[c])
        /\ PagesHoldExactly(ResourcePage, resources, communities[c])

\* a second page was rendered for a community of more than 5 news, in a blog
\* that also holds news of the other community
C4_Witness ==
    /\ resp.request.view = "CommunityNewsListView"
    /\ resp.status = "200"
    /\ resp.request.page = 2
    /\ resp.object_list # <<>>
    /\ \E i \in DOMAIN news : news[i].community # resp.community.pk
    /\ \E i \in DOMAIN resources : resources[i].community = resp.community.pk

----------------------------------------------------------------------------
(* Vocabulary of the claims about Spec *)

ProtectedViews == {"AddCommunityNewsView", "EditCommunityNewsView",
                   "DeleteCommunityNewsView", "AddCommunityResourceView"}

ListViews == {"CommunityNewsListView", "CommunityResourceListView"}

DetailViews == {"CommunityNewsView", "CommunityResourceView"}

\* the permission each protected view asks for
PermissionOf(view) ==
    CASE view = "AddCommunityNewsView" -> "add_community_news"
      [] view = "EditCommunityNewsView" -> "change_community_news"
      [] view = "DeleteCommunityNewsView" -> "delete_community_news"
      [] view = "AddCommunityResourceView" -> "add_community_resource"

NoSuchCommunity(slug) == \A i \in DOMAIN communities : communities[i].slug # slug

CommunityOfSlug(slug) ==
    communities[CHOOSE i \in DOMAIN communities : communities[i].slug = slug]

CommunityOfPost(post) ==
    communities[CHOOSE i \in DOMAIN communities :
                    communities[i].pk = post.community]

NoSuchPost(rows, slug) == \A i \in DOMAIN rows : rows[i].slug # slug

\* the user of the request holds the view's permission on the URL community
Permitted(request) ==
    /\ ~NoSuchCommunity(request.slug)
    /\ has_perm(request.user, PermissionOf(request.view),
                CommunityOfSlug(request.slug))

RendersNothing(response) ==
    /\ response.url = <<>>
    /\ response.community = NoCommunity
    /\ response.post = NoPost
    /\ response.object_list = <<>>

----------------------------------------------------------------------------
(* C1 *)

\* C1: in every step, a News (Resource) row is created only by a request to
\* AddCommunityNewsView (AddCommunityResourceView) whose user is authenticated
\* and holds 'add_community_news' ('add_community_resource') on the community
\* of the URL slug at the time of the request.
C1_CreatedOnlyWithAddPermission ==
    [][ /\ Len(news') > Len(news) =>
              /\ resp'.request.view = "AddCommunityNewsView"
              /\ is_authenticated(resp'.request.user)
              /\ ~NoSuchCommunity(resp'.request.slug)
              /\ has_perm(resp'.request.user, "add_community_news",
                          CommunityOfSlug(resp'.request.slug))
        /\ Len(resources') > Len(resources) =>
              /\ resp'.request.view = "AddCommunityResourceView"
              /\ is_authenticated(resp'.request.user)
              /\ ~NoSuchCommunity(resp'.request.slug)
              /\ has_perm(resp'.request.user, "add_community_resource",
                          CommunityOfSlug(resp'.request.slug))
      ]_vars

\* the member, who is no superuser, has just created a News row
C1_Witness ==
    /\ resp.request.view = "AddCommunityNewsView"
    /\ resp.status = "302"
    /\ resp.request.user = "ann"
    /\ news # <<>>
    /\ news[Len(news)] = resp.post

----------------------------------------------------------------------------
(* C2 *)

\* C2: a request to an add, edit or delete view that is rejected (permission
\* denied for an unauthenticated user or a missing permission, or not found)
\* leaves the Community, News and Resource tables as they were.
C2_RejectedRequestChangesNothing ==
    [][ (resp'.request.view \in ProtectedViews /\ resp'.status \in {"403", "404"})
            => /\ communities' = communities
               /\ news' = news
               /\ resources' = resources
      ]_vars

\* a delete was submitted for an existing News row and was denied
C2_Witness ==
    /\ resp.request.view = "DeleteCommunityNewsView"
    /\ resp.request.method = "POST"
    /\ resp.status = "403"
    /\ is_authenticated(resp.request.user)
    /\ ~NoSuchPost(news, resp.request.post_slug)

----------------------------------------------------------------------------
(* C3 *)

\* C3: the row created by a successful submit to AddCommunityNewsView or
\* AddCommunityResourceView has the community of the URL slug and the
\* requesting user as author, whatever community and author the submitted
\* data carries.
C3_CreatedRowIsAutofilled ==
    [][ /\ Len(news') > Len(news) =>
              /\ news'[Len(news')].community
                     = CommunityOfSlug(resp'.request.slug).pk
              /\ news'[Len(news')].author = resp'.request.user
              /\ news'[Len(news')].slug = resp'.request.data.slug
        /\ Len(resources') > Len(resources) =>
              /\ resources'[Len(resources')].community
                     = CommunityOfSlug(resp'.request.slug).pk
              /\ resources'[Len(resources')].author = resp'.request.user
              /\ resources'[Len(resources')].slug = resp'.request.data.slug
      ]_vars

\* a News row was created from data that named another community and author
C3_Witness ==
    /\ resp.request.view = "AddCommunityNewsView"
    /\ resp.status = "302"
    /\ news # <<>>
    /\ news[Len(news)] = resp.post
    /\ resp.request.data.community # resp.post.community
    /\ resp.request.data.author # resp.post.author

----------------------------------------------------------------------------
(* C5 *)

\* the table a view looks its post up in
PostsOf(view) ==
    IF view = "CommunityResourceView" THEN resources ELSE news

\* C5 as claimed: every view answers 404 and renders no page when the
\* community slug of the URL matches no Community, and the detail, edit and
\* delete views answer 404 when the post slug matches no News / Resource row.
C5_NotFoundWhateverTheUser ==
    [][ /\ NoSuchCommunity(resp'.request.slug)
              => (resp'.status = "404" /\ RendersNothing(resp'))
        /\ ( /\ resp'.request.view \in
                    DetailViews \cup {"EditCommunityNewsView",
                                      "DeleteCommunityNewsView"}
             /\ NoSuchPost(PostsOf(resp'.request.view), resp'.request.post_slug) )
              => (resp'.status = "404" /\ RendersNothing(resp'))
      ]_vars

\* C5 amended: the list and detail views answer 404 and render no page when
\* the community slug matches no Community, and so do the add, edit and
\* delete views when the user is authenticated; the detail views answer 404
\* when the post slug matches no row, and the edit and delete views do when
\* the user is authenticated and holds the permission on the URL community.
C5_NotFoundAfterTheAccessChecks ==
    [][ /\ ( /\ NoSuchCommunity(resp'.request.slug)
             /\ \/ resp'.request.view \in ListViews \cup DetailViews
                \/ /\ resp'.request.view \in ProtectedViews
                   /\ is_authenticated(resp'.request.user) )
              => (resp'.status = "404" /\ RendersNothing(resp'))
        /\ ( /\ resp'.request.view \in DetailViews
             /\ NoSuchPost(PostsOf(resp'.request.view), resp'.request.post_slug) )
              => (resp'.status = "404" /\ RendersNothing(resp'))
        /\ ( /\ resp'.request.view \in {"EditCommunityNewsView",
                                        "DeleteCommunityNewsView"}
             /\ is_authenticated(resp'.request.user)
             /\ Permitted(resp'.request)
             /\ NoSuchPost(news, resp'.request.post_slug) )
              => (resp'.status = "404" /\ RendersNothing(resp'))
      ]_vars

\* an edit by a user who holds the permission on an existing community named
\* a post slug of no News row, in a blog that holds news, and got 404
C5_Witness ==
    /\ resp.request.view = "EditCommunityNewsView"
    /\ resp.status = "404"
    /\ Permitted(resp.request)
    /\ NoSuchPost(news, resp.request.post_slug)
    /\ news # <<>>

----------------------------------------------------------------------------
(* C6 *)

\* C6: the permission check of the add, edit and delete views holds for
\* every authenticated superuser: for an existing community, a superuser's
\* add, edit or delete request is never denied for a missing permission,
\* whatever permissions on communities the superuser was or was not granted.
C6_SuperuserPasses ==
    ( /\ resp.request.view \in ProtectedViews
      /\ is_authenticated(resp.request.user)
      /\ is_superuser(resp.request.user)
      /\ ~NoSuchCommunity(resp.request.slug) )
        => /\ resp.status # "403"
           /\ Len(resp.steps) >= 3
           /\ resp.request.method = "GET" /\ resp.request.view
                  \in {"AddCommunityNewsView", "AddCommunityResourceView"}
                => resp.status = "200"

\* a superuser who was not granted the delete permission on the community
\* has deleted a News row of it
C6_Witness ==
    /\ resp.request.view = "DeleteCommunityNewsView"
    /\ resp.status = "302"
    /\ is_superuser(resp.request.user)
    /\ <<resp.request.user, "delete_community_news", resp.community.pk>>
           \notin grants

----------------------------------------------------------------------------
(* C7 *)

\* C7: a successful add or edit redirects to the detail URL of the slug of
\* the URL community and the slug the post has after the save, a post that
\* is in the database; a successful news delete redirects to the news list
\* URL of the URL community.
C7_RedirectTargets ==
    resp.status = "302" =>
        /\ resp.request.view = "AddCommunityNewsView" =>
              /\ news # <<>> /\ news[Len(news)] = resp.post
              /\ resp.url = <<"view_community_news", resp.request.slug,
                              news[Len(news)].slug>>
        /\ resp.request.view = "EditCommunityNewsView" =>
              /\ resp.post.slug = resp.request.data.slug
              /\ \E i \in DOMAIN news : news[i] = resp.post
              /\ resp.url = <<"view_community_news", resp.request.slug,
                              resp.post.slug>>
        /\ resp.request.view = "AddCommunityResourceView" =>
              /\ resources # <<>> /\ resources[Len(resources)] = resp.post
              /\ resp.url = <<"view_community_resource", resp.request.slug,
                              resources[Len(resources)].slug>>
        /\ resp.request.view = "DeleteCommunityNewsView" =>
              resp.url = <<"view_community_news_list", resp.request.slug>>

\* an edit gave the post another slug, through the URL of a community the
\* post does not belong to
C7_Witness ==
    /\ resp.request.view = "EditCommunityNewsView"
    /\ resp.status = "302"
    /\ resp.post.slug # resp.request.post_slug
    /\ resp.post.community # resp.community.pk

----------------------------------------------------------------------------
(* C8 *)

\* C8: EditCommunityNewsView changes, and DeleteCommunityNewsView deletes, a
\* News row only if the user holds 'change_community_news'
\* ('delete_community_news') on the community the row belongs to, whatever
\* slug / news_slug pair the URL carries.  (A row is changed when the edit
\* stores another slug for it.)
C8_ModifiedOnlyWithPermissionOnItsCommunity ==
    resp.status = "302" =>
        /\ ( /\ resp.request.view = "EditCommunityNewsView"
             /\ resp.post.slug # resp.request.post_slug ) =>
              has_perm(resp.request.user, "change_community_news",
                       CommunityOfPost(resp.post))
        /\ resp.request.view = "DeleteCommunityNewsView" =>
              has_perm(resp.request.user, "delete_community_news",
                       CommunityOfPost(resp.post))

----------------------------------------------------------------------------
(* C9 *)

\* C9: in every page rendered by CommunityNewsView or CommunityResourceView
\* the post of the context belongs to the community of the context.
C9_RenderedPostBelongsToCommunity ==
    (resp.request.view \in DetailViews /\ resp.status = "200")
        => resp.post.community = resp.community.pk

----------------------------------------------------------------------------
(* C10 *)

IsPrefix(s, t) == Len(s) <= Len(t) /\ s = SubSeq(t, 1, Len(s))

\* the order in which a protected view does its checks
StepsOf(view) ==
    <<"is_authenticated", "get_community", "has_perm">>
        \o (CASE view = "EditCommunityNewsView" -> <<"get_object", "form">>
              [] view = "DeleteCommunityNewsView" -> <<"get_object", "delete">>
              [] OTHER -> <<"form">>)

\* C10: the add, edit and delete views check authentication, then look the
\* community up, then evaluate the permission, then look the post up and
\* handle the form: an unauthenticated request is denied with no lookup, an
\* authenticated request for a missing community gets 404 and not permission
\* denied, and an authenticated request without the permission on an
\* existing community is denied whether or not the post exists.
C10_OrderOfChecks ==
    resp.request.view \in ProtectedViews =>
        /\ IsPrefix(resp.steps, StepsOf(resp.request.view))
        /\ ~is_authenticated(resp.request.user) =>
              (resp.status = "403" /\ resp.steps = <<"is_authenticated">>)
        /\ (is_authenticated(resp.request.user)
                /\ NoSuchCommunity(resp.request.slug)) =>
              /\ resp.status = "404"
              /\ resp.steps = <<"is_authenticated", "get_community">>
        /\ (is_authenticated(resp.request.user)
                /\ ~NoSuchCommunity(resp.request.slug)
                /\ ~Permitted(resp.request)) =>
              /\ resp.status = "403"
              /\ resp.steps = <<"is_authenticated", "get_community", "has_perm">>

\* the member asked to edit a post slug of no News row in a community on
\* which she lacks the permission, and was denied
C10_Witness ==
    /\ resp.request.view = "EditCommunityNewsView"
    /\ resp.request.user = "ann"
    /\ ~NoSuchCommunity(resp.request.slug)
    /\ ~Permitted(resp.request)
    /\ NoSuchPost(news, resp.request.post_slug)
    /\ resp.status = "403"

====
